---- MODULE Spec2Model ----
(***************************************************************************)
(* Verification model of the OCR service (ocr-service/src):                *)
(*   ocr_engine.cpp   - OCREngine lifecycle, recognition, classification   *)
(*   api_handler.cpp  - HTTP handlers built on the engine                  *)
(*   main.cpp         - process start-up and the multithreaded server      *)
(* Strings that the code inspects character by character (recognized text, *)
(* keywords, field names) are sequences of one-character strings.          *)
(***************************************************************************)
EXTENDS Integers, Sequences, FiniteSets, TLC

VARIABLES
  language_,               \* OCREngine::language_
  confidence_threshold_,   \* OCREngine::confidence_threshold_
  preprocessing_enabled_,  \* OCREngine::preprocessing_enabled_
  initialized_,            \* OCREngine::initialized_
  tess_api_,               \* OCREngine::tess_api_ (the owned recognition context)
  lastOp,                  \* the engine/handler call that returned last: [op, arg]
  lastRet,                 \* what that call returned
  calls,                   \* collaborator calls made by that call, in order
  pre,                     \* the engine's fields when that call was made
  input,                   \* the input drawn for a single-call specification
  workers                  \* the server's worker threads: position and locals

vars == <<language_, confidence_threshold_, preprocessing_enabled_, initialized_,
          tess_api_, lastOp, lastRet, calls, pre, input, workers>>

engineVars == <<language_, confidence_threshold_, preprocessing_enabled_,
                initialized_, tess_api_>>

(***************************************************************************)
(* Bounds of the model                                                     *)
(***************************************************************************)
MaxBatch == 2      \* longest list of paths handed to processBatch
MaxFrags == 2      \* recognized texts are built from at most this many fragments
NumWorkers == 2    \* server threads that serve requests at the same time

(***************************************************************************)
(* Characters                                                              *)
(***************************************************************************)
NL == "\n"

\* the vertical tab, character 0x0B (written as the character itself)
VT == ""

UpperToLower ==
  ("A" :> "a") @@ ("B" :> "b") @@ ("C" :> "c") @@ ("D" :> "d") @@ ("E" :> "e") @@
  ("F" :> "f") @@ ("G" :> "g") @@ ("H" :> "h") @@ ("I" :> "i") @@ ("J" :> "j") @@
  ("K" :> "k") @@ ("L" :> "l") @@ ("M" :> "m") @@ ("N" :> "n") @@ ("O" :> "o") @@
  ("P" :> "p") @@ ("Q" :> "q") @@ ("R" :> "r") @@ ("S" :> "s") @@ ("T" :> "t") @@
  ("U" :> "u") @@ ("V" :> "v") @@ ("W" :> "w") @@ ("X" :> "x") @@ ("Y" :> "y") @@
  ("Z" :> "z")

\* ::tolower on one character
tolower(c) == IF c \in DOMAIN UpperToLower THEN UpperToLower[c] ELSE c

\* std::transform(begin, end, begin, ::tolower)
ToLowerText(s) == [i \in 1..Len(s) |-> tolower(s[i])]

\* the pattern pat occurs in s starting at position i (1-based)
OccursAt(s, pat, i) ==
  /\ i >= 1
  /\ i + Len(pat) - 1 <= Len(s)
  /\ \A j \in 1..Len(pat) : s[i + j - 1] = pat[j]

npos == 0

\* std::string::find: position of the first occurrence, npos when there is none
find(s, pat) ==
  LET hits == {i \in 1..(Len(s) - Len(pat) + 1) : OccursAt(s, pat, i)}
  IN IF hits = {} THEN npos ELSE CHOOSE i \in hits : \A k \in hits : i <= k

(***************************************************************************)
(* The recognition context (tesseract::TessBaseAPI behind tess_api_)       *)
(***************************************************************************)
NoContext == [alive |-> FALSE, lang |-> "", inited |-> FALSE]

Languages == {"eng", "fra"}
Thresholds == {60, 75}
DefaultThreshold == 60

\* outcomes of the body of initialize():
\*   "ok"                    Init returned 0 and the parameters were set
\*   "fail"                  Init returned non-zero, or Init threw
\*   "throw"                 make_unique threw before tess_api_ was replaced
\*   "throw_SetPageSegMode"  Init returned 0, then SetPageSegMode threw (line 25)
\*   "throw_SetVariable"     Init returned 0, then SetVariable threw (line 26)
InitOutcomes == {"ok", "fail", "throw", "throw_SetPageSegMode", "throw_SetVariable"}

Engine == [language |-> language_, threshold |-> confidence_threshold_,
           preprocessing |-> preprocessing_enabled_, initialized |-> initialized_,
           context |-> tess_api_]

\* OCREngine::initialize as a function of the engine fields it reads
InitializeStep(lang, wasInit, ctx, outcome) ==
  CASE outcome = "ok" ->
         [ret |-> TRUE, initialized |-> TRUE,
          context |-> [alive |-> TRUE, lang |-> lang, inited |-> TRUE],
          calls |-> <<"make_unique", "Init", "SetPageSegMode", "SetVariable">>]
    [] outcome = "fail" ->
         [ret |-> FALSE, initialized |-> wasInit,
          context |-> [alive |-> TRUE, lang |-> lang, inited |-> FALSE],
          calls |-> <<"make_unique", "Init">>]
    [] outcome = "throw_SetPageSegMode" ->
         [ret |-> FALSE, initialized |-> wasInit,
          context |-> [alive |-> TRUE, lang |-> lang, inited |-> TRUE],
          calls |-> <<"make_unique", "Init", "SetPageSegMode">>]
    [] outcome = "throw_SetVariable" ->
         [ret |-> FALSE, initialized |-> wasInit,
          context |-> [alive |-> TRUE, lang |-> lang, inited |-> TRUE],
          calls |-> <<"make_unique", "Init", "SetPageSegMode", "SetVariable">>]
    [] OTHER ->
         [ret |-> FALSE, initialized |-> wasInit, context |-> ctx,
          calls |-> <<"make_unique">>]

\* OCREngine::cleanup as a function of the context it owns
CleanupStep(ctx) ==
  [initialized |-> FALSE, context |-> NoContext,
   calls |-> IF ctx.alive THEN <<"End", "reset">> ELSE <<>>]

(***************************************************************************)
(* Images, files and what the recognition primitive reads from an image    *)
(***************************************************************************)
\* A cv::Mat together with what the recognizer reports for it: the full text,
\* the mean confidence and the word-level segments in reading order.  A segment
\* without text is one for which GetUTF8Text(RIL_WORD) returns null.
EmptyMat == [empty |-> TRUE, channels |-> 0, text |-> <<>>, conf |-> 0, segs |-> <<>>]

BillText == <<"B","i","l","l",NL,"T","o","t","a","l",":"," ","5">>
MemoText == <<"m","e","m","o">>

BillImage ==
  [empty |-> FALSE, channels |-> 3, text |-> BillText, conf |-> 80,
   segs |-> << [hasText |-> TRUE, word |-> <<"B","i","l","l">>, conf |-> 91,
                left |-> 2, top |-> 1, right |-> 9, bottom |-> 4],
               [hasText |-> FALSE, word |-> <<>>, conf |-> 0,
                left |-> 0, top |-> 0, right |-> 0, bottom |-> 0],
               [hasText |-> TRUE, word |-> <<"5">>, conf |-> 69,
                left |-> 12, top |-> 6, right |-> 14, bottom |-> 9] >>]

MemoImage ==
  [empty |-> FALSE, channels |-> 3, text |-> MemoText, conf |-> 60,
   segs |-> << [hasText |-> TRUE, word |-> MemoText, conf |-> 60,
                left |-> 1, top |-> 1, right |-> 5, bottom |-> 3] >>]

\* a blank page: nothing is recognized on it
BlankImage == [empty |-> FALSE, channels |-> 3, text |-> <<>>, conf |-> 0, segs |-> <<>>]

Paths == {"missing.png", "bill.png", "memo.png"}

\* cv::imread(path) with the default flag: a 3-channel image, or an empty Mat
imread(path) ==
  CASE path = "bill.png" -> BillImage
    [] path = "memo.png" -> MemoImage
    [] OTHER -> EmptyMat

\* rasters a caller may hand to the ...FromMat entry points
Mats == {BillImage, MemoImage, BlankImage, [BillImage EXCEPT !.channels = 1]}

\* values an uninitialized double may hold when it is read
IndeterminateDoubles == {0, 37}

\* where a std::exception is raised inside the try block of extractTextFromMat
\* ("pixCreate" is not an exception: pixCreate returns null)
NoFault == [at |-> "none", k |-> 0]
WordFaults == {"word_text", "word_conf", "word_box"}
Faults ==
  {NoFault} \cup {[at |-> a, k |-> 0] : a \in {"pixCreate", "SetImage", "MeanTextConf"}}
            \cup {[at |-> a, k |-> k] : a \in WordFaults, k \in 1..Len(BillImage.segs)}

OCRResultZero ==
  [text |-> <<>>, confidence |-> 0, bounding_boxes |-> <<>>, words |-> <<>>,
   word_confidences |-> <<>>]

\* "OCRResult result;" - the strings and vectors are empty, the double is not set
OCRResultDefault(garbage) == [OCRResultZero EXCEPT !.confidence = garbage]

DocumentInfoZero ==
  [document_type |-> "", detected_fields |-> <<>>, extracted_data |-> <<>>,
   overall_confidence |-> 0]

\* "DocumentInfo info;"
DocumentInfoDefault(garbage) == [DocumentInfoZero EXCEPT !.overall_confidence = garbage]

\* cv::Rect(left, top, right - left, bottom - top)
Rect(seg) == [x |-> seg.left, y |-> seg.top,
              width |-> seg.right - seg.left, height |-> seg.bottom - seg.top]

\* OCREngine::preprocessImage: the result is single-channel
preprocessImage(image) == [image EXCEPT !.channels = 1]

\* mutation: the conversion of line 73 takes a single-channel image as well
cvtColorAcceptsAnyChannels(image) == image.channels \in {1, 3, 4}

\* cv::cvtColor(src, dst, COLOR_BGR2GRAY) accepts 3 or 4 channels and throws otherwise
cvtColorAccepts(image) == image.channels \in {3, 4}

\* what the context reports for the image set on it; a context whose Init
\* failed has no language data and reports nothing
PageOf(ctx, image) ==
  IF ctx.inited THEN [text |-> image.text, conf |-> image.conf, segs |-> image.segs]
  ELSE [text |-> <<>>, conf |-> 0, segs |-> <<>>]

\* the do/while over the result iterator, from segment k on
RECURSIVE WordPass(_, _, _, _)
WordPass(segs, k, fault, result) ==
  IF k > Len(segs) THEN result
  ELSE
    LET seg == segs[k]
        r1 == [result EXCEPT !.words = Append(@, seg.word)]
        r2 == [r1 EXCEPT !.word_confidences = Append(@, seg.conf)]
        r3 == [r2 EXCEPT !.bounding_boxes = Append(@, Rect(seg))]
    IN CASE fault = [at |-> "word_text", k |-> k] -> result
         [] ~seg.hasText -> WordPass(segs, k + 1, fault, result)
         [] fault = [at |-> "word_conf", k |-> k] -> r1
         [] fault = [at |-> "word_box", k |-> k] -> r2
         [] OTHER -> WordPass(segs, k + 1, fault, r3)

\* the fault strikes during the word pass over segs
FaultInWordPass(segs, fault) ==
  /\ fault.at \in WordFaults
  /\ fault.k \in 1..Len(segs)
  /\ fault.at = "word_text" \/ segs[fault.k].hasText

\* the try block of OCREngine::extractTextFromMat (lines 62-130): the returned
\* OCRResult and the collaborator calls made, in order
RecognizeStep(preprocessing, ctx, image, fault, garbage) ==
  LET result == OCRResultDefault(garbage)
      processed == IF preprocessing THEN preprocessImage(image) ELSE image
      c1 == <<"clone">> \o (IF preprocessing THEN <<"preprocessImage">> ELSE <<>>)
              \o <<"cvtColor">>
      page == PageOf(ctx, image)
      rText == [result EXCEPT !.text = page.text]
      rConf == [rText EXCEPT !.confidence = page.conf]
      rWords == WordPass(page.segs, 1, fault, rConf)
      c2 == c1 \o <<"pixCreate">>
      c3 == c2 \o <<"SetImage">>
      c4 == c3 \o <<"GetUTF8Text", "MeanTextConf">>
      c5 == c4 \o <<"GetIterator">>
  IN CASE ~cvtColorAccepts(processed) -> [result |-> result, calls |-> c1]
       [] fault.at = "pixCreate" -> [result |-> result, calls |-> c2]
       [] fault.at = "SetImage" -> [result |-> result, calls |-> c3]
       [] fault.at = "MeanTextConf" -> [result |-> rText, calls |-> c4]
       [] FaultInWordPass(page.segs, fault) -> [result |-> rWords, calls |-> c5]
       [] OTHER -> [result |-> rWords, calls |-> c5 \o <<"pixDestroy">>]

\* mutation: the initialized_ check of lines 57-60 is missing
ExtractTextFromMatUnguarded(isInit, preprocessing, ctx, image, fault, garbage) ==
  RecognizeStep(preprocessing, ctx, image, fault, garbage)

\* OCREngine::extractTextFromMat as a function of the engine fields it reads
ExtractTextFromMatStep(isInit, preprocessing, ctx, image, fault, garbage) ==
  IF ~isInit THEN [result |-> OCRResultZero, calls |-> <<>>]
  ELSE RecognizeStep(preprocessing, ctx, image, fault, garbage)

\* OCREngine::extractText as a function of the engine fields it reads
ExtractTextStep(isInit, preprocessing, ctx, path, fault, garbage) ==
  LET image == imread(path) IN
  IF image.empty THEN [result |-> OCRResultZero, calls |-> <<"imread">>]
  ELSE LET r == ExtractTextFromMatStep(isInit, preprocessing, ctx, image, fault, garbage)
       IN [result |-> r.result, calls |-> <<"imread">> \o r.calls]

(***************************************************************************)
(* Document classification and field extraction                            *)
(***************************************************************************)
kw_invoice == <<"i","n","v","o","i","c","e">>
kw_bill == <<"b","i","l","l">>
kw_receipt == <<"r","e","c","e","i","p","t">>
kw_contract == <<"c","o","n","t","r","a","c","t">>
kw_agreement == <<"a","g","r","e","e","m","e","n","t">>
kw_financial == <<"f","i","n","a","n","c","i","a","l">>
kw_report == <<"r","e","p","o","r","t">>

\* mutation: the contract/agreement group is tested before invoice/bill
DetectDocumentTypeContractFirst(text) ==
  LET text_lower == ToLowerText(text) IN
  IF find(text_lower, kw_contract) # npos \/ find(text_lower, kw_agreement) # npos
  THEN "contract"
  ELSE IF find(text_lower, kw_invoice) # npos \/ find(text_lower, kw_bill) # npos
  THEN "invoice"
  ELSE IF find(text_lower, kw_receipt) # npos
  THEN "receipt"
  ELSE IF find(text_lower, kw_financial) # npos \/ find(text_lower, kw_report) # npos
  THEN "financial_report"
  ELSE "unknown"

\* the if / else-if chain on text_lower
DetectDocumentType(text) ==
  LET text_lower == ToLowerText(text) IN
  IF find(text_lower, kw_invoice) # npos \/ find(text_lower, kw_bill) # npos
  THEN "invoice"
  ELSE IF find(text_lower, kw_receipt) # npos
  THEN "receipt"
  ELSE IF find(text_lower, kw_contract) # npos \/ find(text_lower, kw_agreement) # npos
  THEN "contract"
  ELSE IF find(text_lower, kw_financial) # npos \/ find(text_lower, kw_report) # npos
  THEN "financial_report"
  ELSE "unknown"

\* std::vector<std::string> fields, in order, with each name's characters
fields ==
  << [name |-> "date",    chars |-> <<"d","a","t","e">>],
     [name |-> "amount",  chars |-> <<"a","m","o","u","n","t">>],
     [name |-> "total",   chars |-> <<"t","o","t","a","l">>],
     [name |-> "name",    chars |-> <<"n","a","m","e">>],
     [name |-> "address", chars |-> <<"a","d","d","r","e","s","s">>],
     [name |-> "phone",   chars |-> <<"p","h","o","n","e">>],
     [name |-> "email",   chars |-> <<"e","m","a","i","l">>] >>

\* the regex class \s
IsSpace(c) == c \in {" ", "\t", NL, VT, "\f", "\r"}

\* number of consecutive characters of s from position p on that satisfy \s
RECURSIVE SpaceRun(_, _)
SpaceRun(s, p) == IF p <= Len(s) /\ IsSpace(s[p]) THEN 1 + SpaceRun(s, p + 1) ELSE 0

\* number of consecutive characters of s from position p on that satisfy [^\n]
RECURSIVE LineRun(_, _)
LineRun(s, p) == IF p <= Len(s) /\ s[p] # NL THEN 1 + LineRun(s, p + 1) ELSE 0

\* the literal part of the pattern, under icase, at position i of s
OccursAtNoCase(s, pat, i) ==
  /\ i >= 1
  /\ i + Len(pat) - 1 <= Len(s)
  /\ \A j \in 1..Len(pat) : tolower(s[i + j - 1]) = tolower(pat[j])

\* One attempt of field + "\\s*[:=]\\s*([^\\n]+)" anchored at position i.  The
\* first \s* is followed by [:=], so only its longest run can succeed; the second
\* \s* is greedy and gives characters back until [^\n]+ finds one to start on.
MatchAt(s, field, i) ==
  LET p == i + Len(field)
      q == p + SpaceRun(s, p)
      r == q + 1
      gaps == {k \in 0..SpaceRun(s, r) : LineRun(s, r + k) > 0}
      k2 == CHOOSE k \in gaps : \A j \in gaps : j <= k
      v == r + k2
  IN IF /\ OccursAtNoCase(s, field, i)
        /\ q <= Len(s)
        /\ s[q] \in {":", "="}
        /\ gaps # {}
     THEN [matched |-> TRUE, capture |-> SubSeq(s, v, v + LineRun(s, v) - 1)]
     ELSE [matched |-> FALSE, capture |-> <<>>]

\* mutation: the last position that matches is used
regex_search_last(s, field) ==
  LET starts == {i \in 1..Len(s) : MatchAt(s, field, i).matched}
  IN IF starts = {} THEN [matched |-> FALSE, capture |-> <<>>]
     ELSE MatchAt(s, field, CHOOSE i \in starts : \A j \in starts : j <= i)

\* std::regex_search(text, match, pattern): the leftmost position that matches
regex_search(s, field) ==
  LET starts == {i \in 1..Len(s) : MatchAt(s, field, i).matched}
  IN IF starts = {} THEN [matched |-> FALSE, capture |-> <<>>]
     ELSE MatchAt(s, field, CHOOSE i \in starts : \A j \in starts : i <= j)

\* the loop over fields, from index k on
RECURSIVE ExtractFields(_, _, _)
ExtractFields(text, k, info) ==
  IF k > Len(fields) THEN info
  ELSE LET field == fields[k]
           match == regex_search(text, field.chars)
       IN IF match.matched
          THEN ExtractFields(text, k + 1,
                 [info EXCEPT !.extracted_data = (field.name :> match.capture) @@ @,
                              !.detected_fields = Append(@, field.name)])
          ELSE ExtractFields(text, k + 1, info)

\* OCREngine::analyzeDocumentFromMat, given the OCRResult of line 147
AnalyzeOCRResult(ocr_result, garbage) ==
  LET info == DocumentInfoDefault(garbage) IN
  IF ocr_result.text = <<>> THEN info
  ELSE LET typed == [info EXCEPT !.document_type = DetectDocumentType(ocr_result.text)]
           filled == ExtractFields(ocr_result.text, 1, typed)
       IN [filled EXCEPT !.overall_confidence = ocr_result.confidence]

\* OCREngine::analyzeDocumentFromMat as a function of the engine fields it reads
AnalyzeDocumentFromMatStep(isInit, preprocessing, ctx, image, fault, garbage, garbage2) ==
  LET r == ExtractTextFromMatStep(isInit, preprocessing, ctx, image, fault, garbage)
  IN [result |-> AnalyzeOCRResult(r.result, garbage2), calls |-> r.calls]

\* OCREngine::analyzeDocument as a function of the engine fields it reads
AnalyzeDocumentStep(isInit, preprocessing, ctx, path, fault, garbage, garbage2) ==
  LET image == imread(path) IN
  IF image.empty THEN [result |-> DocumentInfoZero, calls |-> <<"imread">>]
  ELSE LET r == AnalyzeDocumentFromMatStep(isInit, preprocessing, ctx, image, fault,
                                           garbage, garbage2)
       IN [result |-> r.result, calls |-> <<"imread">> \o r.calls]

\* mutation: a path that cannot be loaded gets no slot in the output
RECURSIVE ProcessBatchLoopSkipping(_, _, _, _, _, _, _, _)
ProcessBatchLoopSkipping(isInit, preprocessing, ctx, image_paths, faults, garbages, i, results) ==
  IF i > Len(image_paths) THEN results
  ELSE ProcessBatchLoopSkipping(isInit, preprocessing, ctx, image_paths, faults, garbages,
         i + 1,
         IF imread(image_paths[i]).empty THEN results
         ELSE Append(results,
                     ExtractTextStep(isInit, preprocessing, ctx, image_paths[i],
                                     faults[i], garbages[i]).result))

\* the loop of OCREngine::processBatch, from index i on: one push_back per path
RECURSIVE ProcessBatchLoop(_, _, _, _, _, _, _, _)
ProcessBatchLoop(isInit, preprocessing, ctx, image_paths, faults, garbages, i, results) ==
  IF i > Len(image_paths) THEN results
  ELSE ProcessBatchLoop(isInit, preprocessing, ctx, image_paths, faults, garbages, i + 1,
         Append(results,
                ExtractTextStep(isInit, preprocessing, ctx, image_paths[i],
                                faults[i], garbages[i]).result))

\* the collaborator calls of the loop of OCREngine::processBatch, from index i
\* on: those of each extractText, one after the other
RECURSIVE ProcessBatchCalls(_, _, _, _, _, _, _, _)
ProcessBatchCalls(isInit, preprocessing, ctx, image_paths, faults, garbages, i, made) ==
  IF i > Len(image_paths) THEN made
  ELSE ProcessBatchCalls(isInit, preprocessing, ctx, image_paths, faults, garbages, i + 1,
         made \o ExtractTextStep(isInit, preprocessing, ctx, image_paths[i],
                                 faults[i], garbages[i]).calls)

(***************************************************************************)
(* Engine lifecycle and configuration calls                                *)
(***************************************************************************)
initialize(outcome) ==
  LET r == InitializeStep(language_, initialized_, tess_api_, outcome) IN
  /\ initialized_' = r.initialized
  /\ tess_api_' = r.context
  /\ lastOp' = [op |-> "initialize", arg |-> outcome]
  /\ lastRet' = r.ret
  /\ calls' = r.calls
  /\ pre' = Engine
  /\ UNCHANGED <<language_, confidence_threshold_, preprocessing_enabled_, input, workers>>

cleanup ==
  LET r == CleanupStep(tess_api_) IN
  /\ initialized_' = r.initialized
  /\ tess_api_' = r.context
  /\ lastOp' = [op |-> "cleanup", arg |-> "none"]
  /\ lastRet' = "void"
  /\ calls' = r.calls
  /\ pre' = Engine
  /\ UNCHANGED <<language_, confidence_threshold_, preprocessing_enabled_, input, workers>>

\* mutation: the language is stored but the context is not rebuilt
SetLanguageNoReinit(wasInit, ctx, language, outcome) ==
  [initialized |-> wasInit, context |-> ctx, calls |-> <<>>]

\* OCREngine::setLanguage as a function of the engine fields it reads
SetLanguageStep(wasInit, ctx, language, outcome) ==
  IF wasInit
  THEN LET c == CleanupStep(ctx)
           r == InitializeStep(language, c.initialized, c.context, outcome)
       IN [initialized |-> r.initialized, context |-> r.context,
           calls |-> c.calls \o r.calls]
  ELSE [initialized |-> wasInit, context |-> ctx, calls |-> <<>>]

setLanguage(language, outcome) ==
  LET r == SetLanguageStep(initialized_, tess_api_, language, outcome) IN
  /\ language_' = language
  /\ initialized_' = r.initialized
  /\ tess_api_' = r.context
  /\ lastOp' = [op |-> "setLanguage", arg |-> language]
  /\ lastRet' = "void"
  /\ calls' = r.calls
  /\ pre' = Engine
  /\ UNCHANGED <<confidence_threshold_, preprocessing_enabled_, input, workers>>

setConfidenceThreshold(threshold) ==
  /\ confidence_threshold_' = threshold
  /\ lastOp' = [op |-> "setConfidenceThreshold", arg |-> threshold]
  /\ lastRet' = "void"
  /\ calls' = <<>>
  /\ pre' = Engine
  /\ UNCHANGED <<language_, preprocessing_enabled_, initialized_, tess_api_, input, workers>>

enablePreprocessing(enable) ==
  /\ preprocessing_enabled_' = enable
  /\ lastOp' = [op |-> "enablePreprocessing", arg |-> enable]
  /\ lastRet' = "void"
  /\ calls' = <<>>
  /\ pre' = Engine
  /\ UNCHANGED <<language_, confidence_threshold_, initialized_, tess_api_, input, workers>>

(***************************************************************************)
(* Recognition calls on the engine                                         *)
(***************************************************************************)
extractTextFromMat(image, fault, garbage) ==
  LET r == ExtractTextFromMatStep(initialized_, preprocessing_enabled_, tess_api_,
                                  image, fault, garbage) IN
  /\ lastOp' = [op |-> "extractTextFromMat", arg |-> image]
  /\ lastRet' = r.result
  /\ calls' = r.calls
  /\ pre' = Engine
  /\ UNCHANGED <<engineVars, input, workers>>

extractText(image_path, fault, garbage) ==
  LET r == ExtractTextStep(initialized_, preprocessing_enabled_, tess_api_,
                           image_path, fault, garbage) IN
  /\ lastOp' = [op |-> "extractText", arg |-> image_path]
  /\ lastRet' = r.result
  /\ calls' = r.calls
  /\ pre' = Engine
  /\ UNCHANGED <<engineVars, input, workers>>

analyzeDocumentFromMat(image, fault, garbage, garbage2) ==
  LET r == AnalyzeDocumentFromMatStep(initialized_, preprocessing_enabled_, tess_api_,
                                      image, fault, garbage, garbage2) IN
  /\ lastOp' = [op |-> "analyzeDocumentFromMat", arg |-> image]
  /\ lastRet' = r.result
  /\ calls' = r.calls
  /\ pre' = Engine
  /\ UNCHANGED <<engineVars, input, workers>>

analyzeDocument(image_path, fault, garbage, garbage2) ==
  LET r == AnalyzeDocumentStep(initialized_, preprocessing_enabled_, tess_api_,
                               image_path, fault, garbage, garbage2) IN
  /\ lastOp' = [op |-> "analyzeDocument", arg |-> image_path]
  /\ lastRet' = r.result
  /\ calls' = r.calls
  /\ pre' = Engine
  /\ UNCHANGED <<engineVars, input, workers>>

processBatch(image_paths, faults, garbages) ==
  /\ lastOp' = [op |-> "processBatch",
                arg |-> [paths |-> image_paths, faults |-> faults, garbages |-> garbages]]
  /\ lastRet' = ProcessBatchLoop(initialized_, preprocessing_enabled_, tess_api_,
                                 image_paths, faults, garbages, 1, <<>>)
  /\ calls' = ProcessBatchCalls(initialized_, preprocessing_enabled_, tess_api_,
                                image_paths, faults, garbages, 1, <<>>)
  /\ pre' = Engine
  /\ UNCHANGED <<engineVars, input, workers>>

\* sequences over S of length n
SeqsOfLen(S, n) == [1..n -> S]

\* the engine right after OCREngine::OCREngine()
EngineInit ==
  /\ language_ = "eng"
  /\ confidence_threshold_ = DefaultThreshold
  /\ preprocessing_enabled_ = TRUE
  /\ initialized_ = FALSE
  /\ tess_api_ = NoContext

Init ==
  /\ EngineInit
  /\ lastOp = [op |-> "construct", arg |-> "none"]
  /\ lastRet = "void"
  /\ calls = <<>>
  /\ pre = [language |-> "eng", threshold |-> DefaultThreshold, preprocessing |-> TRUE,
            initialized |-> FALSE, context |-> NoContext]
  /\ input = "none"
  /\ workers = <<>>

Next ==
  \/ \E o \in InitOutcomes : initialize(o)
  \/ cleanup
  \/ \E l \in Languages, o \in InitOutcomes : setLanguage(l, o)
  \/ \E t \in Thresholds : setConfidenceThreshold(t)
  \/ \E b \in BOOLEAN : enablePreprocessing(b)
  \/ \E m \in Mats, f \in Faults, g \in IndeterminateDoubles : extractTextFromMat(m, f, g)
  \/ \E p \in Paths, f \in Faults, g \in IndeterminateDoubles : extractText(p, f, g)
  \/ \E m \in Mats, f \in Faults, g, g2 \in IndeterminateDoubles :
       analyzeDocumentFromMat(m, f, g, g2)
  \/ \E p \in Paths, f \in Faults, g, g2 \in IndeterminateDoubles :
       analyzeDocument(p, f, g, g2)

Spec == Init /\ [][Next]_vars

(***************************************************************************)
(* processBatch: specification SpecProcessBatch                            *)
(*                                                                         *)
(* processBatch reads initialized_, preprocessing_enabled_ and tess_api_   *)
(* and writes no field of the engine, so it is specified on its own, from  *)
(* each combination of those three fields that Spec reaches, with every    *)
(* fault and every value of the unset confidence drawn for each path.      *)
(***************************************************************************)
\* the contexts tess_api_ may hold for the language "eng"
FailedContext == [alive |-> TRUE, lang |-> "eng", inited |-> FALSE]

ReadyContext == [alive |-> TRUE, lang |-> "eng", inited |-> TRUE]

\* initialized_ and tess_api_ as initialize() and cleanup() leave them
EngineStates ==
  {[initialized |-> FALSE, context |-> NoContext],
   [initialized |-> FALSE, context |-> FailedContext],
   [initialized |-> FALSE, context |-> ReadyContext],
   [initialized |-> TRUE, context |-> ReadyContext],
   [initialized |-> TRUE, context |-> FailedContext]}

\* the engine in one of these states and the list of paths about to be passed
InitProcessBatch ==
  /\ language_ = "eng"
  /\ confidence_threshold_ = DefaultThreshold
  /\ preprocessing_enabled_ \in BOOLEAN
  /\ \E e \in EngineStates : initialized_ = e.initialized /\ tess_api_ = e.context
  /\ lastOp = [op |-> "call", arg |-> "none"]
  /\ lastRet = "void"
  /\ calls = <<>>
  /\ pre = Engine
  /\ input \in UNION {SeqsOfLen(Paths, n) : n \in 0..MaxBatch}
  /\ workers = <<>>

NextProcessBatch ==
  /\ lastOp.op = "call"
  /\ \E fs \in SeqsOfLen(Faults, Len(input)),
        gs \in SeqsOfLen(IndeterminateDoubles, Len(input)) :
        processBatch(input, fs, gs)

SpecProcessBatch == InitProcessBatch /\ [][NextProcessBatch]_vars

(***************************************************************************)
(* Properties of the engine under Spec                                     *)
(***************************************************************************)
RecognitionOps == {"extractTextFromMat", "extractText", "analyzeDocumentFromMat",
                   "analyzeDocument"}

\* C1: after a call of initialize() that returned false, in whatever state the
\* engine was when the call was made, the initialized flag is false; and a
\* recognition call made while the engine holds a context whose Init failed
\* (no initialize() has succeeded since) takes the not-initialized path: it
\* makes no call on the recognition context.
C1_FailedInitializeLeavesFlagFalse ==
  /\ (lastOp.op = "initialize" /\ lastRet = FALSE) => ~initialized_
  /\ (lastOp.op = "extractTextFromMat" /\ pre.context.alive /\ ~pre.context.inited) =>
       (lastRet = OCRResultZero /\ calls = <<>>)

\* C2: setLanguage(L) on an initialized engine stores L, tears the old context
\* down and then re-initializes, leaving the engine either initialized with a
\* context initialized for L or not initialized; and in no state is the engine
\* initialized with a context made for another language than the stored one.
C2_LanguageChangeRebuildsContext ==
  /\ initialized_ => (tess_api_.alive /\ tess_api_.lang = language_)
  /\ (lastOp.op = "setLanguage" /\ pre.initialized) =>
       /\ language_ = lastOp.arg
       /\ \/ ~initialized_
          \/ /\ initialized_
             /\ tess_api_ = [alive |-> TRUE, lang |-> lastOp.arg, inited |-> TRUE]
       /\ pre.context.alive =>
            /\ Len(calls) >= 3
            /\ SubSeq(calls, 1, 3) = <<"End", "reset", "make_unique">>

C2_Witness ==
  /\ lastOp.op = "setLanguage"
  /\ pre.initialized
  /\ pre.context.inited
  /\ pre.language # language_
  /\ initialized_
  /\ tess_api_.lang = language_

\* C4: extractTextFromMat on an engine whose initialized flag is false returns
\* the zero-valued OCRResult, makes no preprocessing or recognition call, and
\* leaves every field of the engine as it was.
C4_NotInitializedYieldsZeroResult ==
  (lastOp.op = "extractTextFromMat" /\ ~pre.initialized) =>
     /\ lastRet = OCRResultZero
     /\ calls = <<>>
     /\ Engine = pre

C4_Witness ==
  /\ lastOp.op = "extractTextFromMat"
  /\ ~pre.initialized
  /\ pre.context.alive
  /\ ~lastOp.arg.empty

\* C5: processBatch on N paths returns N results, the i-th being the result of
\* extractText on the i-th path; a path that cannot be loaded, and every path
\* when the engine is not initialized, gives the zero-valued OCRResult.
C5_BatchOneResultPerPath ==
  lastOp.op = "processBatch" =>
    LET paths == lastOp.arg.paths IN
    /\ Len(lastRet) = Len(paths)
    /\ \A i \in 1..Len(paths) :
         /\ lastRet[i] = ExtractTextStep(pre.initialized, pre.preprocessing, pre.context,
                           paths[i], lastOp.arg.faults[i], lastOp.arg.garbages[i]).result
         /\ (imread(paths[i]).empty \/ ~pre.initialized) => lastRet[i] = OCRResultZero

C5_Witness ==
  /\ lastOp.op = "processBatch"
  /\ Len(lastOp.arg.paths) = 2
  /\ imread(lastOp.arg.paths[1]).empty
  /\ ~imread(lastOp.arg.paths[2]).empty
  /\ pre.initialized
  /\ lastRet[1] = OCRResultZero
  /\ lastRet[2].words # <<>>

\* C6: every OCRResult returned by extractTextFromMat has words,
\* word_confidences and bounding_boxes of the same length.
C6_ParallelWordSequences ==
  lastOp.op = "extractTextFromMat" =>
    /\ Len(lastRet.words) = Len(lastRet.word_confidences)
    /\ Len(lastRet.words) = Len(lastRet.bounding_boxes)

\* C9: when the recognized text is empty (engine not initialized, image not
\* loadable, nothing recognized on the page) document analysis returns the
\* zero-valued DocumentInfo, overall_confidence 0 included.
C9_EmptyTextYieldsZeroDocumentInfo ==
  /\ (lastOp.op = "analyzeDocumentFromMat" /\ (~pre.initialized \/ lastOp.arg.text = <<>>))
       => lastRet = DocumentInfoZero
  /\ (lastOp.op = "analyzeDocument"
        /\ (~pre.initialized \/ imread(lastOp.arg).empty \/ imread(lastOp.arg).text = <<>>))
       => lastRet = DocumentInfoZero

(***************************************************************************)
(* Document analysis of one recognized text (SpecClassify)                 *)
(***************************************************************************)
\* pieces of recognized text: keywords in several cases, labelled values with
\* each separator and spacing the pattern allows, line breaks and filler
Fragments ==
  << <<"I","n","v","o","i","c","e">>,
     <<"B","I","L","L">>,
     <<"R","e","c","e","i","p","t">>,
     <<"c","o","n","t","r","a","c","t">>,
     <<"A","g","r","e","e","m","e","n","t">>,
     <<"F","I","N","A","N","C","I","A","L">>,
     <<"r","e","p","o","r","t">>,
     <<"D","a","t","e","=","7">>,
     <<"a","m","o","u","n","t",":"," ","3",NL>>,
     <<"T","O","T","A","L"," ",VT,":","\t","9">>,
     <<"n","a","m","e","=","A","l">>,
     <<"a","d","d","r","e","s","s",":",NL>>,
     <<"P","h","o","n","e","="," ",NL,"x">>,
     <<"e","m","a","i","l",":","e">>,
     <<NL,"d","a","t","e",":"," ","8">>,
     <<NL>>,
     <<" ","x">>,
     <<"t","o","t","a","l">> >>

RECURSIVE Flatten(_)
Flatten(fs) == IF fs = <<>> THEN <<>> ELSE fs[1] \o Flatten(Tail(fs))

\* the recognized texts built from n fragments, one after the other
TextsOfLen(n) ==
  {Flatten([i \in 1..n |-> Fragments[ix[i]]]) : ix \in [1..n -> 1..Len(Fragments)]}

Texts == UNION {TextsOfLen(n) : n \in 0..MaxFrags}

\* a loaded page on which the recognizer reads the text t
PageImage(t) == [empty |-> FALSE, channels |-> 3, text |-> t, conf |-> 80, segs |-> <<>>]

\* The engine after initialize() succeeded and enablePreprocessing(false) (a state
\* of Spec), and the page that is about to be analyzed.
InitClassify ==
  /\ language_ = "eng"
  /\ confidence_threshold_ = DefaultThreshold
  /\ preprocessing_enabled_ = FALSE
  /\ initialized_ = TRUE
  /\ tess_api_ = ReadyContext
  /\ lastOp = [op |-> "enablePreprocessing", arg |-> FALSE]
  /\ lastRet = "void"
  /\ calls = <<>>
  /\ pre = [language |-> "eng", threshold |-> DefaultThreshold, preprocessing |-> TRUE,
            initialized |-> TRUE, context |-> ReadyContext]
  /\ input \in {PageImage(t) : t \in Texts}
  /\ workers = <<>>

analyzeInput ==
  /\ lastOp.op = "enablePreprocessing"
  /\ \E g, g2 \in IndeterminateDoubles : analyzeDocumentFromMat(input, NoFault, g, g2)

NextClassify == analyzeInput

SpecClassify == InitClassify /\ [][NextClassify]_vars

Analyzed == lastOp.op = "analyzeDocumentFromMat"

\* the lower-cased text contains the keyword
Has(text, kw) == \E i \in 1..Len(text) : OccursAt(ToLowerText(text), kw, i)

\* C7: for a non-empty recognized text the document type is the label of the
\* first keyword group, in the order invoice/bill, receipt, contract/agreement,
\* financial/report, that the lower-cased text contains, and "unknown" when it
\* contains none; it is always one of the five labels, and a text with both
\* "invoice" and "contract" is an "invoice".
C7_DocumentTypeByPriority ==
  (Analyzed /\ input.text # <<>>) =>
    LET x == input.text
        t == lastRet.document_type
        g1 == Has(x, kw_invoice) \/ Has(x, kw_bill)
        g2 == Has(x, kw_receipt)
        g3 == Has(x, kw_contract) \/ Has(x, kw_agreement)
        g4 == Has(x, kw_financial) \/ Has(x, kw_report)
    IN /\ t \in {"invoice", "receipt", "contract", "financial_report", "unknown"}
       /\ (t = "invoice") <=> g1
       /\ (t = "receipt") <=> (~g1 /\ g2)
       /\ (t = "contract") <=> (~g1 /\ ~g2 /\ g3)
       /\ (t = "financial_report") <=> (~g1 /\ ~g2 /\ ~g3 /\ g4)
       /\ (t = "unknown") <=> (~g1 /\ ~g2 /\ ~g3 /\ ~g4)
       /\ (Has(x, kw_invoice) /\ Has(x, kw_contract)) => t = "invoice"

C7_Witness ==
  /\ Analyzed
  /\ Has(input.text, kw_invoice)
  /\ Has(input.text, kw_contract)
  /\ find(ToLowerText(input.text), kw_contract) < find(ToLowerText(input.text), kw_invoice)
  /\ lastRet.document_type = "invoice"

\* positions at which a value may start when the pattern
\* <field><whitespace>*<':' or '='><whitespace>*<value> is laid on s from position i
ValueStarts(s, field, i) ==
  {v \in 1..Len(s) :
     /\ OccursAtNoCase(s, field, i)
     /\ s[v] # NL
     /\ \E c \in (i + Len(field))..(v - 1) :
          /\ s[c] \in {":", "="}
          /\ \A j \in (i + Len(field))..(c - 1) : IsSpace(s[j])
          /\ \A j \in (c + 1)..(v - 1) : IsSpace(s[j])}

MatchStarts(s, field) == {i \in 1..Len(s) : ValueStarts(s, field, i) # {}}

FieldMatches(f) == MatchStarts(input.text, f.chars) # {}

\* C8: for a non-empty recognized text, detected_fields lists, in the order of
\* the fixed list and without duplicates, exactly the fields whose pattern
\* matches; extracted_data has exactly those keys; and each value is what the
\* leftmost match of the field's pattern captures: it starts after the optional
\* whitespace that follows the separator and runs to the next line break (or
\* the end of the text), whatever matches come later.
C8_FieldsExtracted ==
  (Analyzed /\ input.text # <<>>) =>
    LET x == input.text
        hit == SelectSeq(fields, FieldMatches)
    IN /\ lastRet.detected_fields = [k \in 1..Len(hit) |-> hit[k].name]
       /\ DOMAIN lastRet.extracted_data = {hit[k].name : k \in 1..Len(hit)}
       /\ \A k \in 1..Len(hit) :
            LET starts == MatchStarts(x, hit[k].chars)
                first == CHOOSE i \in starts : \A j \in starts : i <= j
                vs == ValueStarts(x, hit[k].chars, first)
                v == CHOOSE a \in vs : \A b \in vs : b <= a
                value == lastRet.extracted_data[hit[k].name]
                e == v + Len(value) - 1
            IN /\ value # <<>>
               /\ e <= Len(x)
               /\ value = SubSeq(x, v, e)
               /\ \A j \in v..e : x[j] # NL
               /\ e = Len(x) \/ x[e + 1] = NL

C8_Witness ==
  /\ Analyzed
  /\ Cardinality(MatchStarts(input.text, fields[1].chars)) = 2
  /\ lastRet.detected_fields = <<"date">>
  /\ lastRet.extracted_data["date"] = <<"7">>

(***************************************************************************)
(* APIHandler::handleBatchProcessing (SpecBatch)                           *)
(***************************************************************************)
\* A double is kept as an exact fraction in lowest terms; the rounding of the
\* division to the nearest double is not modelled.
RECURSIVE GCD(_, _)
GCD(a, b) == IF b = 0 THEN a ELSE GCD(b, a % b)

Fraction(a, b) == LET g == GCD(a, b) IN [num |-> a \div g, den |-> b \div g]

\* the accumulation loop of the lambda, from index i on
RECURSIVE SumConfidence(_, _, _)
SumConfidence(results, i, sum) ==
  IF i > Len(results) THEN sum
  ELSE SumConfidence(results, i + 1, sum + results[i].confidence)

\* mutation: the sum is divided by the number of items that recognized something
AverageOverNonZero(results) ==
  LET n == Cardinality({i \in 1..Len(results) : results[i].confidence # 0})
  IN IF results = <<>> \/ n = 0 THEN Fraction(0, 1)
     ELSE Fraction(SumConfidence(results, 1, 0), n)

\* the lambda that computes "average_confidence"
AverageConfidence(results) ==
  IF results = <<>> THEN Fraction(0, 1)
  ELSE Fraction(SumConfidence(results, 1, 0), Len(results))

\* type_name() of a file_paths element that is not a string
JsonTypeNames == {"number", "boolean", "null", "array", "object"}

\* bodies of a POST /api/v1/ocr/batch request: kind says how far the parsing
\* gets, type_name what the elements of file_paths are
BatchRequests ==
  {[kind |-> k, file_paths |-> <<>>, type_name |-> "string"] :
     k \in {"invalid_json", "no_file_paths"}}
  \cup {[kind |-> "not_strings", file_paths |-> <<>>, type_name |-> t] :
          t \in JsonTypeNames}
  \cup {[kind |-> "paths", file_paths |-> ps, type_name |-> "string"] :
          ps \in UNION {SeqsOfLen(Paths, n) : n \in 0..MaxBatch}}

\* crow::response(status, createErrorResponse(error).dump()); every call leaves
\* status_code at its default argument, 400
ErrorResponse(status, error) ==
  [status |-> status,
   body |-> [success |-> FALSE, error |-> error, status_code |-> 400]]

\* e.what() of the json type_error 302 thrown by the conversion of line 155
TypeErrorWhat(type_name) ==
  "[json.exception.type_error.302] type must be string, but is " \o type_name

\* APIHandler::handleBatchProcessing as a function of the request and of the
\* engine fields processBatch reads (processing_time and timestamp, which are
\* clock readings, are left out of the response)
HandleBatchProcessingStep(isInit, preprocessing, ctx, req, faults, garbages) ==
  CASE req.kind = "invalid_json" -> ErrorResponse(400, "Invalid JSON format")
    [] req.kind = "no_file_paths" ->
         ErrorResponse(400, "Missing or invalid file_paths array")
    [] req.kind = "not_strings" ->
         ErrorResponse(500, "Internal server error: " \o TypeErrorWhat(req.type_name))
    [] req.file_paths = <<>> -> ErrorResponse(400, "Empty file_paths array")
    [] OTHER ->
         LET results == ProcessBatchLoop(isInit, preprocessing, ctx, req.file_paths,
                                         faults, garbages, 1, <<>>)
         IN [status |-> 200,
             body |-> [success |-> TRUE,
                       data |-> [results |-> [i \in 1..Len(results) |->
                                                [text |-> results[i].text,
                                                 confidence |-> results[i].confidence,
                                                 word_count |-> Len(results[i].words)]],
                                 total_files |-> Len(results),
                                 average_confidence |-> AverageConfidence(results)]]]

handleBatchProcessing(req, faults, garbages) ==
  /\ lastOp.op = "receive"
  /\ lastOp' = [op |-> "handleBatchProcessing", arg |-> req]
  /\ lastRet' = HandleBatchProcessingStep(initialized_, preprocessing_enabled_, tess_api_,
                                          req, faults, garbages)
  /\ calls' = IF req.kind = "paths"
              THEN ProcessBatchCalls(initialized_, preprocessing_enabled_, tess_api_,
                                     req.file_paths, faults, garbages, 1, <<>>)
              ELSE <<>>
  /\ pre' = Engine
  /\ UNCHANGED <<engineVars, input, workers>>

\* An engine before or after a successful initialize(), with either setting of
\* the preprocessing toggle, and the batch request that has been received.
InitBatch ==
  /\ language_ = "eng"
  /\ confidence_threshold_ = DefaultThreshold
  /\ preprocessing_enabled_ \in BOOLEAN
  /\ initialized_ \in BOOLEAN
  /\ tess_api_ = IF initialized_ THEN ReadyContext ELSE NoContext
  /\ lastOp = [op |-> "receive", arg |-> "none"]
  /\ lastRet = "void"
  /\ calls = <<>>
  /\ pre = Engine
  /\ input \in BatchRequests
  /\ workers = <<>>

NextBatch ==
  \E fs \in SeqsOfLen(Faults, Len(input.file_paths)),
     gs \in SeqsOfLen(IndeterminateDoubles, Len(input.file_paths)) :
     handleBatchProcessing(input, fs, gs)

SpecBatch == InitBatch /\ [][NextBatch]_vars

BatchHandled == lastOp.op = "handleBatchProcessing" /\ lastOp.arg.kind = "paths"

RECURSIVE SumOf(_)
SumOf(confs) == IF confs = <<>> THEN 0 ELSE confs[1] + SumOf(Tail(confs))

\* C10 as stated: the response to a batch carries the arithmetic mean of the
\* per-item confidences as its average confidence, and the response to an empty
\* batch carries the average confidence 0.
C10_AverageIsMeanOrZero ==
  BatchHandled =>
    /\ lastRet.status = 200
    /\ LET data == lastRet.body.data
           n == Len(data.results)
           avg == data.average_confidence
       IN IF lastOp.arg.file_paths = <<>> THEN avg.num = 0
          ELSE avg.num * n = SumOf([i \in 1..n |-> data.results[i].confidence]) * avg.den

\* C10, amended: the response to a non-empty batch carries the arithmetic mean
\* of the per-item confidences of its results as its average confidence; an
\* empty batch is answered with the 400 error and no average at all.
C10_AverageIsMean ==
  BatchHandled =>
    IF lastOp.arg.file_paths = <<>>
    THEN lastRet = ErrorResponse(400, "Empty file_paths array")
    ELSE /\ lastRet.status = 200
         /\ LET data == lastRet.body.data
                n == Len(data.results)
                avg == data.average_confidence
            IN /\ n = Len(lastOp.arg.file_paths)
               /\ data.total_files = n
               /\ avg.den > 0
               /\ avg.num * n = SumOf([i \in 1..n |-> data.results[i].confidence]) * avg.den

C10_Witness ==
  /\ BatchHandled
  /\ lastRet.status = 200
  /\ Len(lastRet.body.data.results) = 2
  /\ lastRet.body.data.results[1].confidence = 80
  /\ lastRet.body.data.results[2].confidence = 60
  /\ lastRet.body.data.average_confidence = [num |-> 70, den |-> 1]

(***************************************************************************)
(* The server of main.cpp (SpecServer)                                     *)
(*                                                                         *)
(* main() initializes the one engine, returns 1 when that fails, and then  *)
(* runs the application multithreaded: each worker thread serves one       *)
(* request at a time by calling the handler, which calls the engine with   *)
(* no lock around the call.  A worker is followed through the engine code  *)
(* it runs: cv::imread, the initialized_ check of line 57, the             *)
(* preprocessing of lines 65-69, the conversion of line 73 and then either *)
(* the catch of line 126 or the recognition section of lines 92-122 on the *)
(* shared tess_api_ (position "SetImage").  No handler changes the         *)
(* preprocessing toggle, so in this program the conversion is always       *)
(* handed a single-channel image and throws.                               *)
(***************************************************************************)
Workers == 1..NumWorkers

Handlers == {"extract", "text", "analyze", "batch"}

\* what a worker has sent before it served any request
NoResponse == [status |-> 0, confidences |-> <<>>, results |-> <<>>]

\* seen holds the paths whose rasters other workers had on the shared
\* tess_api_ while this worker was in the recognition section; response is the
\* response an idle worker has just sent
IdleWorker == [pc |-> "idle", handler |-> "none", paths |-> <<>>, i |-> 0,
               image |-> EmptyMat, results |-> <<>>, seen |-> {},
               response |-> NoResponse]

\* the requests a handler passes on to the engine: one path, or for the batch
\* handler a non-empty list of paths
ServerPaths == {"missing.png", "bill.png"}

BatchLengths == {1, 2}

BatchRequestPaths == UNION {SeqsOfLen(ServerPaths, n) : n \in BatchLengths}

RequestPaths(h) ==
  IF h = "batch" THEN BatchRequestPaths ELSE SeqsOfLen(Paths, 1)

\* a worker thread picks up a request and enters its handler
accept(w, h, ps) ==
  /\ workers[w].pc = "idle"
  /\ workers' = [workers EXCEPT ![w] =
                   [IdleWorker EXCEPT !.pc = "imread", !.handler = h, !.paths = ps,
                                      !.i = 1]]
  /\ UNCHANGED <<engineVars, lastOp, lastRet, calls, pre, input>>

\* extractText / analyzeDocument: cv::imread and the image.empty() test
loadImage(w) ==
  LET me == workers[w]
      image == imread(me.paths[me.i])
  IN /\ me.pc = "imread"
     /\ workers' = [workers EXCEPT ![w] =
          IF image.empty
          THEN [me EXCEPT !.pc = "returned", !.results = Append(@, OCRResultZero)]
          ELSE [me EXCEPT !.pc = "check", !.image = image]]
     /\ UNCHANGED <<engineVars, lastOp, lastRet, calls, pre, input>>

\* extractTextFromMat, lines 57-60: the read of initialized_
checkInitialized(w) ==
  LET me == workers[w] IN
  /\ me.pc = "check"
  /\ workers' = [workers EXCEPT ![w] =
       IF ~initialized_
       THEN [me EXCEPT !.pc = "returned", !.results = Append(@, OCRResultZero)]
       ELSE [me EXCEPT !.pc = "preprocess"]]
  /\ UNCHANGED <<engineVars, lastOp, lastRet, calls, pre, input>>

\* extractTextFromMat, lines 65-69: clone and preprocessing
preprocess(w) ==
  LET me == workers[w] IN
  /\ me.pc = "preprocess"
  /\ workers' = [workers EXCEPT ![w] =
       [me EXCEPT !.pc = "cvtColor",
                  !.image = IF preprocessing_enabled_ THEN preprocessImage(@) ELSE @]]
  /\ UNCHANGED <<engineVars, lastOp, lastRet, calls, pre, input>>

\* the path of the raster the worker is working on
PathOf(w) == workers[w].paths[workers[w].i]

\* the workers in the recognition section (lines 92-122)
InSection == {v \in Workers : workers[v].pc = "SetImage"}

\* extractTextFromMat, line 73: the conversion throws to the catch of line 126
\* or lets the worker into the recognition section.  From then on the worker
\* and the workers already in the section use the one tess_api_ together, with
\* no lock: each may find the other's raster set on it.
convert(w) ==
  LET me == workers[w]
      enters == cvtColorAccepts(me.image)
  IN
  /\ me.pc = "cvtColor"
  /\ workers' = [v \in Workers |->
       IF v = w
       THEN [me EXCEPT !.pc = IF enters THEN "SetImage" ELSE "catch",
                       !.seen = IF enters THEN {PathOf(u) : u \in InSection} ELSE {}]
       ELSE IF enters /\ v \in InSection
            THEN [workers[v] EXCEPT !.seen = @ \cup {PathOf(w)}]
            ELSE workers[v]]
  /\ UNCHANGED <<engineVars, lastOp, lastRet, calls, pre, input>>

\* what the passes of lines 95-122 read for a worker whose raster is own, when
\* the text, the mean confidence and the words are those of the rasters last
\* set on the shared handle at the time of each pass
PageSeen(own, text_path, conf_path, words_path) ==
  [own EXCEPT !.text = imread(text_path).text,
              !.conf = imread(conf_path).conf,
              !.segs = imread(words_path).segs]

\* the rasters a worker leaving extractTextFromMat may have read from the
\* shared handle, and the faults that may have been raised on its way
SourcesOf(w) ==
  IF workers[w].pc = "SetImage" THEN {PathOf(w)} \cup workers[w].seen
  ELSE IF workers[w].pc = "catch" THEN {PathOf(w)}
  ELSE {}

FaultsOf(w) == IF workers[w].pc = "SetImage" THEN Faults ELSE {NoFault}

\* extractTextFromMat up to its return at line 130: from the catch of line 126,
\* or through the recognition section of lines 92-124 with the fault that is
\* raised there; garbage is what the unset confidence of "OCRResult result;"
\* holds, and tp, cp, wp are the paths of the rasters on the shared handle when
\* the text, the confidence and the words are read
returnResult(w, fault, garbage, tp, cp, wp) ==
  LET me == workers[w] IN
  /\ me.pc \in {"catch", "SetImage"}
  /\ workers' = [workers EXCEPT ![w] =
       [me EXCEPT !.pc = "returned",
                  !.seen = {},
                  !.results = Append(@, RecognizeStep(preprocessing_enabled_, tess_api_,
                                          PageSeen(imread(PathOf(w)), tp, cp, wp),
                                          fault, garbage).result)]]
  /\ UNCHANGED <<engineVars, lastOp, lastRet, calls, pre, input>>

\* the engine call returned: the batch loop goes on to its next path, every
\* other handler (and the batch loop after its last path) builds the response
nextPath(w) ==
  LET me == workers[w] IN
  /\ me.pc = "returned"
  /\ me.i < Len(me.paths)
  /\ workers' = [workers EXCEPT ![w] = [me EXCEPT !.pc = "imread", !.i = @ + 1]]
  /\ UNCHANGED <<engineVars, lastOp, lastRet, calls, pre, input>>

\* the response of the handler: the analyze handler reports the analysis of its
\* one result (overall_confidence, api_handler.cpp:129), the others report
\* text, confidence and word count of each result; garbage2 is what the unset
\* overall_confidence of "DocumentInfo info;" holds
respond(w, garbage2) ==
  LET me == workers[w]
      info == IF imread(me.paths[1]).empty THEN DocumentInfoZero
              ELSE AnalyzeOCRResult(me.results[1], garbage2)
      response ==
        IF me.handler = "analyze"
        THEN [status |-> 200, confidences |-> <<info.overall_confidence>>,
              results |-> <<[text |-> info.document_type,
                             word_count |-> Len(info.detected_fields)]>>]
        ELSE [status |-> 200,
              confidences |-> [k \in 1..Len(me.results) |-> me.results[k].confidence],
              results |-> [k \in 1..Len(me.results) |->
                             [text |-> me.results[k].text,
                              word_count |-> Len(me.results[k].words)]]]
  IN
  /\ me.pc = "returned"
  /\ me.i = Len(me.paths)
  /\ workers' = [workers EXCEPT ![w] = [IdleWorker EXCEPT !.response = response]]
  /\ UNCHANGED <<engineVars, lastOp, lastRet, calls, pre, input>>

\* the process once main() has reached app.run(): the engine is initialized
\* with its constructor's settings, every worker is idle
InitServer ==
  /\ language_ = "eng"
  /\ confidence_threshold_ = DefaultThreshold
  /\ preprocessing_enabled_ = TRUE
  /\ initialized_ = TRUE
  /\ tess_api_ = ReadyContext
  /\ lastOp = [op |-> "initialize", arg |-> "ok"]
  /\ lastRet = TRUE
  /\ calls = <<"make_unique", "Init", "SetPageSegMode", "SetVariable">>
  /\ pre = [language |-> "eng", threshold |-> DefaultThreshold, preprocessing |-> TRUE,
            initialized |-> FALSE, context |-> NoContext]
  /\ input = "none"
  /\ workers = [w \in Workers |-> IdleWorker]

NextServer ==
  \E w \in Workers :
    \/ \E h \in Handlers : \E ps \in RequestPaths(h) : accept(w, h, ps)
    \/ loadImage(w)
    \/ checkInitialized(w)
    \/ preprocess(w)
    \/ convert(w)
    \/ \E f \in FaultsOf(w), g \in IndeterminateDoubles, tp, cp, wp \in SourcesOf(w) :
         returnResult(w, f, g, tp, cp, wp)
    \/ nextPath(w)
    \/ \E g2 \in (IF workers[w].handler = "analyze" THEN IndeterminateDoubles ELSE {0}) :
         respond(w, g2)

SpecServer == InitServer /\ [][NextServer]_vars

\* the worker is executing OCREngine::extractTextFromMat on the shared engine
InRecognitionCall(w) ==
  workers[w].pc \in {"check", "preprocess", "cvtColor", "catch", "SetImage"}

\* the worker is in the recognition section of extractTextFromMat: SetImage
\* through the word pass on the shared tess_api_ (lines 92-122)
InRecognitionSection(w) == w \in InSection

\* lines 47-124, for one setting of the preprocessing toggle
RecognitionPipeline(preprocessing) ==
  <<"imread", "clone">> \o (IF preprocessing THEN <<"preprocessImage">> ELSE <<>>)
    \o <<"cvtColor", "pixCreate", "SetImage", "GetUTF8Text", "MeanTextConf",
         "GetIterator", "pixDestroy">>

\* C11: on an initialized engine a recognition call on a loaded image performs,
\* in this order, preprocessing (exactly when the toggle is on), the conversion
\* to single-channel intensity and the hand-off to the recognition primitive
\* with the full-text, mean-confidence and word-level passes; the calls made
\* are a prefix of that pipeline which, for either setting of the toggle,
\* gets past the conversion: it reaches SetImage, or stops at a pixCreate that
\* returned null.
C11_RecognitionPipelineOrder ==
  (lastOp.op = "extractText" /\ pre.initialized /\ ~imread(lastOp.arg).empty) =>
    LET pipeline == RecognitionPipeline(pre.preprocessing) IN
    /\ Len(calls) <= Len(pipeline)
    /\ calls = SubSeq(pipeline, 1, Len(calls))
    /\ (\E i \in 1..Len(calls) : calls[i] = "preprocessImage") <=> pre.preprocessing
    /\ \/ \E i \in 1..Len(calls) : calls[i] = "SetImage"
       \/ calls[Len(calls)] = "pixCreate"

(***************************************************************************)
(* Deskew (deskewImage, lines 257-295): specification SpecDeskew           *)
(*                                                                         *)
(* Angles are integers in tenths of a degree: -45 is -450, 90 is 900 and   *)
(* 0.5 is 5.  A binary raster is described by its size and by what the     *)
(* image library finds on it: its external contours in enumeration order,  *)
(* each with its contourArea and the angle of its minAreaRect.             *)
(***************************************************************************)
MaxContours == 2

SkewAngles == {-900, -500, -451, -450, -449, -6, -5, 0, 5, 6, 100, 450}

ContourAreas == {1, 2}

Contour == [area : ContourAreas, angle : SkewAngles]

BinarySizes == {[cols |-> 4, rows |-> 3], [cols |-> 5, rows |-> 2]}

ContoursOfLen(n) == [1..n -> Contour]

BinaryImages ==
  {[cols |-> sz.cols, rows |-> sz.rows, contours |-> cs] :
     sz \in BinarySizes, cs \in UNION {ContoursOfLen(n) : n \in 0..MaxContours}}

\* std::max_element with the comparator contourArea(a) < contourArea(b): the
\* scan from index i on, largest being the index kept so far
RECURSIVE MaxElementFrom(_, _, _)
MaxElementFrom(contours, i, largest) ==
  IF i > Len(contours) THEN largest
  ELSE MaxElementFrom(contours, i + 1,
         IF contours[largest].area < contours[i].area THEN i ELSE largest)

max_element(contours) == MaxElementFrom(contours, 2, 1)

abs(x) == IF x < 0 THEN -x ELSE x

\* mutation: the correction also applies at exactly -45 degrees
AdjustAngleInclusive(angle) == IF angle <= -450 THEN 900 + angle ELSE angle

\* lines 283-285
AdjustAngle(angle) == IF angle < -450 THEN 900 + angle ELSE angle

\* no warpAffine takes place: the clone is returned as findContours left it
NoRotation ==
  [center |-> [x |-> Fraction(0, 1), y |-> Fraction(0, 1)],
   angle  |-> 0,
   scale  |-> 1,
   dsize  |-> [cols |-> 0, rows |-> 0]]

\* lines 289-291: the arguments of getRotationMatrix2D and warpAffine
Rotation(binary, angle) ==
  [center |-> [x |-> Fraction(binary.cols, 2), y |-> Fraction(binary.rows, 2)],
   angle  |-> angle,
   scale  |-> 1,
   dsize  |-> [cols |-> binary.cols, rows |-> binary.rows]]

\* mutation: the rotation matrix is built for the negated angle
deskewImageNegated(binary) ==
  IF binary.contours = <<>> THEN [image |-> binary, rotation |-> NoRotation]
  ELSE LET rect  == binary.contours[max_element(binary.contours)]
           angle == AdjustAngle(rect.angle)
       IN IF abs(angle) > 5
          THEN [image |-> binary, rotation |-> Rotation(binary, -angle)]
          ELSE [image |-> binary, rotation |-> NoRotation]

\* The returned raster: the clone of the input and the affine rotation applied
\* to it, NoRotation when the clone is returned as it is.
deskewImage(binary) ==
  IF binary.contours = <<>> THEN [image |-> binary, rotation |-> NoRotation]
  ELSE LET rect  == binary.contours[max_element(binary.contours)]
           angle == AdjustAngle(rect.angle)
       IN IF abs(angle) > 5
          THEN [image |-> binary, rotation |-> Rotation(binary, angle)]
          ELSE [image |-> binary, rotation |-> NoRotation]

DeskewCalls(binary, ret) ==
  <<"clone", "findContours">>
    \o (IF binary.contours = <<>> THEN <<>> ELSE <<"max_element", "minAreaRect">>)
    \o (IF ret.rotation = NoRotation THEN <<>>
        ELSE <<"getRotationMatrix2D", "warpAffine">>)

\* The engine inside preprocessImage, after removeNoise returned the binary
\* raster that deskewImage is about to receive (line 227).
InitDeskew ==
  /\ language_ = "eng"
  /\ confidence_threshold_ = DefaultThreshold
  /\ preprocessing_enabled_ = TRUE
  /\ initialized_ = TRUE
  /\ tess_api_ = ReadyContext
  /\ lastOp = [op |-> "removeNoise", arg |-> "none"]
  /\ lastRet = "none"
  /\ calls = <<>>
  /\ pre = [language |-> "eng", threshold |-> DefaultThreshold, preprocessing |-> TRUE,
            initialized |-> TRUE, context |-> ReadyContext]
  /\ input \in BinaryImages
  /\ workers = <<>>

deskewInput ==
  /\ lastOp.op = "removeNoise"
  /\ lastOp' = [op |-> "deskewImage", arg |-> input]
  /\ lastRet' = deskewImage(input)
  /\ calls' = DeskewCalls(input, deskewImage(input))
  /\ pre' = Engine
  /\ UNCHANGED <<engineVars, input, workers>>

NextDeskew == deskewInput

SpecDeskew == InitDeskew /\ [][NextDeskew]_vars

Deskewed == lastOp.op = "deskewImage"

\* an index of the contour of maximum area, the first one among equals
IsLargest(cs, i) ==
  /\ \A j \in 1..Len(cs) : cs[j].area <= cs[i].area
  /\ \A j \in 1..(i - 1) : cs[j].area < cs[i].area

\* the corrected angle of the rectangle fitted to the largest contour
CorrectedSkew(cs) ==
  LET i == CHOOSE k \in 1..Len(cs) : IsLargest(cs, k)
      r == cs[i].angle
  IN IF r < -450 THEN r + 900 ELSE r

\* C12: the angle of the minimum-area rectangle of the largest contour is
\* corrected by adding 90 degrees when it is below -45 and is used as it is
\* otherwise (-50 becomes 40, 10 stays 10); deskew returns its input unchanged
\* when no contour is found or when the corrected angle has absolute value at
\* most 0.5 degrees, and otherwise rotates, the rotation being built from the
\* corrected angle.
C12_DeskewAngleCorrection ==
  /\ AdjustAngle(-500) = 400
  /\ AdjustAngle(100) = 100
  /\ \A r \in SkewAngles : AdjustAngle(r) = IF r < -450 THEN r + 900 ELSE r
  /\ Deskewed =>
       LET cs == input.contours IN
       /\ lastRet.image = input
       /\ cs = <<>> => lastRet.rotation = NoRotation
       /\ cs # <<>> =>
            LET a == CorrectedSkew(cs) IN
            /\ (abs(a) <= 5) => lastRet.rotation = NoRotation
            /\ (abs(a) > 5) => /\ lastRet.rotation # NoRotation
                               /\ abs(lastRet.rotation.angle) = abs(a)

\* a second, larger contour at -50 degrees: corrected to 40 and rotated
C12_Witness ==
  /\ Deskewed
  /\ Len(input.contours) = 2
  /\ input.contours[1] = [area |-> 1, angle |-> 0]
  /\ input.contours[2] = [area |-> 2, angle |-> -500]
  /\ lastRet.rotation # NoRotation
  /\ abs(lastRet.rotation.angle) = 400

\* C13 as stated: when the corrected angle a exceeds 0.5 degrees in absolute
\* value, deskew rotates about the image center by -a, the output having the
\* dimensions of the input.
C13_RotatesByNegatedAngle ==
  (Deskewed /\ input.contours # <<>> /\ abs(CorrectedSkew(input.contours)) > 5) =>
    /\ lastRet.rotation # NoRotation
    /\ lastRet.rotation.angle = -CorrectedSkew(input.contours)
    /\ lastRet.rotation.dsize = [cols |-> input.cols, rows |-> input.rows]

\* C13: when the corrected angle a exceeds 0.5 degrees in absolute value,
\* deskew rotates the whole image about its center (cols/2, rows/2) with the
\* rotation matrix built for the angle a itself, at scale 1, the output having
\* the dimensions of the input.
C13_RotatesByCorrectedAngle ==
  (Deskewed /\ input.contours # <<>> /\ abs(CorrectedSkew(input.contours)) > 5) =>
    /\ lastRet.rotation # NoRotation
    /\ lastRet.rotation.angle = CorrectedSkew(input.contours)
    /\ lastRet.rotation.scale = 1
    /\ lastRet.rotation.center.x = Fraction(input.cols, 2)
    /\ lastRet.rotation.center.y = Fraction(input.rows, 2)
    /\ lastRet.rotation.dsize = [cols |-> input.cols, rows |-> input.rows]

\* a 5x2 raster whose only contour lies at 10 degrees: rotated about (5/2, 1)
C13_Witness ==
  /\ Deskewed
  /\ input.cols = 5 /\ input.rows = 2
  /\ Len(input.contours) = 1
  /\ input.contours[1].angle = 100
  /\ lastRet.rotation # NoRotation
  /\ lastRet.rotation.angle = 100
  /\ lastRet.rotation.center = [x |-> [num |-> 5, den |-> 2], y |-> [num |-> 1, den |-> 1]]
  /\ lastRet.rotation.dsize = [cols |-> 5, rows |-> 2]
====
